---- MODULE Spec2Model ----
(***************************************************************************)
(* MersenneManager: the work-cache top-off, result reconciliation, chunked *)
(* submission and lock-marker discipline of TFmanager (src/TFmanager/      *)
(* main.go) and LLmanager (src/unnamed/part_001).                          *)
(*                                                                         *)
(* Files are byte sequences (tuples of one-character strings); the bytes   *)
(* package functions and the regular expressions of the source are         *)
(* operators over them, computed the way the Go code computes them.        *)
(* Slices and offsets keep Go's 0-based values; SubSeq calls convert.      *)
(***************************************************************************)
EXTENDS Integers, Sequences, FiniteSets, TLC

(***************************************************************************)
(* Bytes                                                                   *)
(***************************************************************************)
LF == "\n"
CR == "\r"
SP == " "
Digits == {"0", "1", "2", "3", "4", "5", "6", "7", "8", "9"}
DigitChars == <<"0", "1", "2", "3", "4", "5", "6", "7", "8", "9">>

Max(S) == CHOOSE x \in S : \A y \in S : y <= x
Min(S) == CHOOSE x \in S : \A y \in S : x <= y

\* s[i:] of Go, i 0-based
From(s, i) == SubSeq(s, i + 1, Len(s))
\* s[i:j] of Go
Slice(s, i, j) == SubSeq(s, i + 1, j)

\* bytes.Replace(s, "\r", "\n", -1)
ReplaceCR(s) == [k \in 1..Len(s) |-> IF s[k] = CR THEN LF ELSE s[k]]

\* sub occurs in s at 1-based position k
HasAt(s, k, sub) ==
    /\ k >= 1
    /\ k + Len(sub) - 1 <= Len(s)
    /\ \A m \in 1..Len(sub) : s[k + m - 1] = sub[m]

\* bytes.Contains(s, sub); the empty sub is contained in every s
Contains(s, sub) == \E k \in 1..(Len(s) - Len(sub) + 1) : HasAt(s, k, sub)

\* bytes.LastIndexByte(s, c) and bytes.LastIndex(s, <<c>>): 0-based, -1 if absent
LastIndexByte(s, c) ==
    LET ks == {k \in 1..Len(s) : s[k] = c}
    IN  IF ks = {} THEN -1 ELSE Max(ks) - 1

\* bytes.Join(ss, sep)
RECURSIVE Join(_, _)
Join(ss, sep) ==
    IF Len(ss) = 0 THEN <<>>
    ELSE IF Len(ss) = 1 THEN ss[1]
    ELSE ss[1] \o sep \o Join(Tail(ss), sep)

\* bytes.TrimRight(s, " \n")
TrimRight(s) ==
    LET keep == {k \in 1..Len(s) : s[k] \notin {SP, LF}}
    IN  IF keep = {} THEN <<>> ELSE SubSeq(s, 1, Max(keep))

\* strconv.Atoi on a string of digits (the error result is discarded by the
\* caller, which then sees 0; the regexp guarantees digits)
RECURSIVE Atoi(_)
Atoi(ds) ==
    IF Len(ds) = 0 THEN 0
    ELSE LET d == CHOOSE v \in 0..9 : DigitChars[v + 1] = ds[Len(ds)]
         IN  Atoi(SubSeq(ds, 1, Len(ds) - 1)) * 10 + d

\* fmt.Sprint of an unsigned integer
RECURSIVE Sprint(_)
Sprint(n) ==
    IF n < 10 THEN <<DigitChars[n + 1]>>
    ELSE Sprint(n \div 10) \o <<DigitChars[(n % 10) + 1]>>

\* copy(dst, src) into the slice s[i:]: min(len) bytes are overwritten,
\* the length of s never changes
CopyAt(s, i, src) ==
    [k \in 1..Len(s) |->
        IF k > i /\ k - i <= Len(src) THEN src[k - i] ELSE s[k]]

(***************************************************************************)
(* Regular expressions.  No pattern of the source matches "\n", so FindAll *)
(* yields at most the matches found line by line.                          *)
(***************************************************************************)
\* last position of the run of digits starting at k (k-1 if s[k] is no digit)
DigitRunEnd(s, k) ==
    LET stop == {m \in k..Len(s) : s[m] \notin Digits}
    IN  IF stop = {} THEN Len(s) ELSE Min(stop) - 1

\* last position of the line that contains position k
LineEnd(s, k) ==
    LET stop == {m \in k..Len(s) : s[m] = LF}
    IN  IF stop = {} THEN Len(s) ELSE Min(stop) - 1

\* (,[0-9]+){3} matched at position q with greedy digit runs: the position
\* of its last byte, or 0 when it does not match there
ThreeGroupsEnd(s, q) ==
    IF ~(q <= Len(s) /\ s[q] = ",") THEN 0
    ELSE LET e1 == DigitRunEnd(s, q + 1) IN
         IF ~(e1 >= q + 1 /\ e1 + 1 <= Len(s) /\ s[e1 + 1] = ",") THEN 0
         ELSE LET e2 == DigitRunEnd(s, e1 + 2) IN
              IF ~(e2 >= e1 + 2 /\ e2 + 1 <= Len(s) /\ s[e2 + 1] = ",") THEN 0
              ELSE LET e3 == DigitRunEnd(s, e2 + 2) IN
                   IF e3 >= e2 + 2 THEN e3 ELSE 0

FactorEq == <<"F", "a", "c", "t", "o", "r", "=">>
TestEq == <<"T", "e", "s", "t", "=">>
DoubleCheckEq == <<"D", "o", "u", "b", "l", "e", "C", "h", "e", "c", "k", "=">>

\* the literal heads of the workReg of each program
WorkHeads(v) == IF v = "TF" THEN {FactorEq} ELSE {DoubleCheckEq, TestEq}

\* workReg on one line: (Factor)=.*(,[0-9]+){3} resp.
\* (DoubleCheck|Test)=.*(,[0-9]+){3}.  Leftmost start; the greedy .* leaves
\* the last place where three groups match.  <<>> when the line has no match.
WorkMatch(v, line) ==
    LET qsFor(p, h) == {q \in (p + Len(h))..Len(line) : ThreeGroupsEnd(line, q) > 0}
        starts == {p \in 1..Len(line) :
                     \E h \in WorkHeads(v) : HasAt(line, p, h) /\ qsFor(p, h) # {}}
    IN  IF starts = {} THEN <<>>
        ELSE LET p == Min(starts)
                 h == CHOOSE x \in WorkHeads(v) : HasAt(line, p, x)
                 q == Max(qsFor(p, h))
             IN  SubSeq(line, p, ThreeGroupsEnd(line, q))

\* positions k of an "M" followed by at least one digit and then a space
MDigitsSpaceAt(line) ==
    {k \in 1..Len(line) :
        /\ line[k] = "M"
        /\ LET e == DigitRunEnd(line, k + 1)
           IN  e >= k + 1 /\ e + 1 <= Len(line) /\ line[e + 1] = SP}

\* positions k of "M( " digits* " )"
MParenAt(line) ==
    {k \in 1..Len(line) :
        /\ HasAt(line, k, <<"M", "(", SP>>)
        /\ LET e == DigitRunEnd(line, k + 3)
           IN  HasAt(line, e + 1, <<SP, ")">>)}

\* resultReg on one line: .*M([0-9]+) .* (the whole line) in TFmanager,
\* M\( ([0-9]*) \).* (from the first match to the end of line) in LLmanager
ResultMatch(v, line) ==
    IF v = "TF"
    THEN IF MDigitsSpaceAt(line) = {} THEN <<>> ELSE line
    ELSE IF MParenAt(line) = {} THEN <<>>
         ELSE SubSeq(line, Min(MParenAt(line)), Len(line))

\* resultExtract.Find(rec): the leftmost M([0-9]+), digits greedy
resultExtract(rec) ==
    LET ks == {k \in 1..Len(rec) : rec[k] = "M" /\ DigitRunEnd(rec, k + 1) >= k + 1}
    IN  IF ks = {} THEN <<>>
        ELSE SubSeq(rec, Min(ks), DigitRunEnd(rec, Min(ks) + 1))

\* re.FindAll(text, -1) for a pattern given by its one-line matcher
RECURSIVE FindAllFrom(_, _, _, _)
FindAllFrom(kind, v, s, k) ==
    IF k > Len(s) THEN <<>>
    ELSE IF s[k] = LF THEN FindAllFrom(kind, v, s, k + 1)
    ELSE LET e == LineEnd(s, k)
             line == SubSeq(s, k, e)
             m == IF kind = "work" THEN WorkMatch(v, line) ELSE ResultMatch(v, line)
         IN  (IF m = <<>> THEN <<>> ELSE <<m>>) \o FindAllFrom(kind, v, s, e + 1)

workRegFindAll(v, s) == FindAllFrom("work", v, s, 1)
resultRegFindAll(v, s) == FindAllFrom("result", v, s, 1)

(***************************************************************************)
(* Go slices that may be nil: [nil |-> BOOLEAN, v |-> sequence]            *)
(***************************************************************************)
NilSlice == [nil |-> TRUE, v |-> <<>>]
Some(v) == [nil |-> FALSE, v |-> v]
\* re.FindAll returns nil when there is no match
OrNil(v) == IF v = <<>> THEN NilSlice ELSE Some(v)

(***************************************************************************)
(* Pure functions of the programs                                          *)
(***************************************************************************)
\* the filterDups loop of getWorkGPU72: first occurrences, in order
RECURSIVE filterDupsFrom(_, _, _)
filterDupsFrom(w, k, w2) ==
    IF k > Len(w) THEN w2
    ELSE IF \E m \in 1..Len(w2) : w2[m] = w[k]
         THEN filterDupsFrom(w, k + 1, w2)
         ELSE filterDupsFrom(w, k + 1, Append(w2, w[k]))

\* a getWorkGPU72 without the filterDups loop
filterDupsSkipped(w) == w

filterDups(w) == filterDupsFrom(w, 1, <<>>)

\* getWorkGPU72 given the outcome of the HTTP request: nil on a transport
\* error, else the deduplicated matches (an empty, non-nil slice if none)
getWorkGPU72(resp) ==
    IF resp.err THEN NilSlice
    ELSE Some(filterDups(workRegFindAll("TF", resp.body)))

\* setTargets: overwrite the last field in place when it is below Target
setTarget1(target, rec) ==
    LET idx == LastIndexByte(rec, ",")
        val == Atoi(From(rec, idx + 1))
    IN  IF val < target THEN CopyAt(rec, idx + 1, Sprint(target)) ELSE rec

setTargets(target, wrk) ==
    IF wrk.nil THEN wrk
    ELSE Some([k \in 1..Len(wrk.v) |-> setTarget1(target, wrk.v[k])])

\* getWork given the outcome of the HTTP request (TFmanager adjusts the
\* targets, LLmanager returns the matches as they are)
getWork(v, target, resp) ==
    IF resp.err THEN NilSlice
    ELSE IF v = "TF" THEN setTargets(target, OrNil(workRegFindAll("TF", resp.body)))
         ELSE OrNil(workRegFindAll("LL", resp.body))

\* the work slice of topoff after the provider calls
fetchWork(v, st, target, r72, rPn) ==
    IF v = "TF"
    THEN LET w72 == IF st.gpu72 THEN getWorkGPU72(r72) ELSE NilSlice
         IN  IF Len(w72.v) = 0 /\ st.primenet THEN getWork(v, target, rPn) ELSE w72
    ELSE getWork(v, target, rPn)

\* filterResults: asgns maps a key to 1 (keep) or 2 (send); a key seen
\* before reuses its entry
RECURSIVE filterFrom(_, _, _, _, _, _)
filterFrom(results, todo, k, asgns, keep, send) ==
    IF k > Len(results) THEN [keep |-> keep, send |-> send]
    ELSE LET asgn == resultExtract(results[k])
             seen == {e \in asgns : e[1] = asgn}
         IN  IF seen # {}
             THEN LET loc == (CHOOSE e \in seen : TRUE)[2]
                  IN  IF loc = 1
                      THEN filterFrom(results, todo, k + 1, asgns, Append(keep, results[k]), send)
                      ELSE filterFrom(results, todo, k + 1, asgns, keep, Append(send, results[k]))
             ELSE IF Contains(todo, From(asgn, 1))
                  THEN filterFrom(results, todo, k + 1, asgns \cup {<<asgn, 1>>},
                                  Append(keep, results[k]), send)
                  ELSE filterFrom(results, todo, k + 1, asgns \cup {<<asgn, 2>>},
                                  keep, Append(send, results[k]))

\* a filterResults with its two results exchanged
filterResultsSwapped(results, todo) ==
    LET f == filterFrom(results, todo, 1, {}, <<>>, <<>>)
    IN  [keep |-> f.send, send |-> f.keep]

\* a filterResults that sends every line, whatever the queue holds
filterResultsSendAll(results, todo) == [keep |-> <<>>, send |-> results]

filterResults(results, todo) == filterFrom(results, todo, 1, {}, <<>>, <<>>)

(***************************************************************************)
(* Program constants and model bounds                                      *)
(***************************************************************************)
\* the retry loops of lockFile and unlockFile: for i := 0; i < 5; i++
LockTries == 5
\* the retry cap of TFmanager's polling loop: for ct := 0; ct < 10; ct++
RetryCap == 10
\* getFiles: if dev.Target < 73 { dev.Target = 73 }
MinTarget == 73
\* const sendlimit = 2*1024*1024 - 1024, scaled down to SendLimitBytes bytes
SendLimitBytes == 8
sendlimit == SendLimitBytes
\* polling cycles the model follows: of the one process of Spec, and of
\* the first of the two processes of SpecConc
MaxCycles == 1
ConcCycles == 1
\* polling cycles the model follows the process of SpecMain for: enough
\* for RetryCap failures in a row
MainCycles == 10

Procs == {1, 2}
FileKinds == {"todo", "res", "sent"}

VARIABLES
    variant,   \* "TF": src/TFmanager/main.go, "LL": src/unnamed/part_001
    sett,      \* settings: gpu72, primenet, Polltime, Devices (Cache, Target)
    net,       \* what the surroundings may do: the answers of the providers
               \* (net.p72, net.pn) and of the submission endpoint (net.sub),
               \* and whether a write may be short (net.disk)
    fs,        \* fs[d]: the bytes of device d's worktodo.txt (todo),
               \* results.txt (res) and results_sent.txt (sent)
    lckFiles,  \* the .lck marker files that exist, as <<d, kind>>
    held,      \* held[p]: markers p created and has not yet removed
    pc,        \* pc[p]: where process p is
    ct,        \* ct[p]: the retry counter of main's polling loop
    cycles,    \* cycles[p]: polling cycles the model still follows p for
    dv,        \* dv[p]: main's device index i (0-based)
    lk,        \* lk[p]: lockFile/unlockFile locals: names, j, i, ret
    tp,        \* tp[p]: topoff locals: curWrk, workFile
    sr,        \* sr[p]: sendResults locals: keep, send, results, i, loc, asgn
    ok,        \* ok[p]: the value the last login/topoff/sendResults returned
    hist,      \* hist[d]: how the last sendResults call on device d that
               \* read its files ended: the value it returned, whether
               \* its rewrite of results.txt was short, and results.txt
               \* and worktodo.txt as it left them
    obs        \* obs[p]: what the current call did, for the properties:
               \* fetches made, the chunk last handed to sendbatch, and the
               \* files as they were when the call read them

vars == <<variant, sett, net, fs, lckFiles, held, pc, ct, cycles, dv, lk, tp, sr, ok, hist, obs>>

Dev(p) == dv[p] + 1
Device(p) == sett.Devices[Dev(p)]
Name(p, kind) == <<Dev(p), kind>>

NoLk == [names |-> <<>>, j |-> 0, i |-> 0, ret |-> "none"]
NoTp == [curWrk |-> <<>>, workFile |-> <<>>]
NoSr == [asgn |-> <<>>, keep |-> <<>>, send |-> <<>>, results |-> <<>>, i |-> 0, loc |-> 0]
NoHist == [valid |-> FALSE, short |-> FALSE, res |-> <<>>, todo |-> <<>>]
NoObs ==
    [ read |-> FALSE,       \* the call read its files without error
      todo0 |-> <<>>,       \* worktodo.txt, results.txt, results_sent.txt
      res0 |-> <<>>,        \*   as they were when the call read them
      sent0 |-> <<>>,
      depth0 |-> 0,         \* assignments topoff counted
      fetches |-> 0,        \* provider requests topoff made
      src |-> "none",       \* the provider whose answer became work
      raw |-> <<>>,         \* the assignment lines of that answer, as sent
      zero |-> FALSE,       \* every provider asked answered with no line
      fetched |-> NilSlice, \* the work slice after the provider calls
      wrote |-> "no",       \* "trunc", then "full" or "short": the rewrite
      batch |-> NilSlice,   \* the chunk last handed to sendbatch
      chunks |-> <<>>,      \* the chunks handed to sendbatch, in order
      nack |-> FALSE,       \* the endpoint did not acknowledge that chunk
      locerr |-> FALSE,     \* the loop returned at its loc <= 0 check
      rewrote |-> "no",     \* "full" or "short": the rewrite of results.txt
      lockfail |-> FALSE,   \* lockFile gave up
      got |-> 0 ]           \* markers lockFile had created when it gave up

(***************************************************************************)
(* lockFile / unlockFile                                                   *)
(***************************************************************************)
\* an open without O_EXCL: succeeds whether or not the marker exists
OpenNoExcl(files, name) == TRUE

\* os.OpenFile(fname+".lck", os.O_CREATE|os.O_EXCL, 0660) succeeds exactly
\* when the marker does not exist
OpenExcl(files, name) == name \notin files

\* a failure path that removes nothing
unlockOnFailNone(names, j) == <<>>

\* lockFile's failure path: unlockFile(fnames[:j]...)
unlockOnFail(names, j) == SubSeq(names, 1, j)

\* a sendResults that does not lock worktodo.txt
SendLockNamesNoTodo(v, p) == <<Name(p, "res"), Name(p, "sent")>>

\* the names sendResults locks, in order
SendLockNames(v, p) ==
    IF v = "TF" THEN <<Name(p, "res"), Name(p, "sent"), Name(p, "todo")>>
    ELSE <<Name(p, "res"), Name(p, "sent")>>

\* start unlockFile(names...) and then return to main with value r;
\* an empty list returns at once
Return(p, names, r, ret) ==
    /\ ok' = [ok EXCEPT ![p] = r]
    /\ IF names = <<>>
       THEN /\ pc' = [pc EXCEPT ![p] = ret]
            /\ lk' = [lk EXCEPT ![p] = NoLk]
       ELSE /\ pc' = [pc EXCEPT ![p] = "unlock"]
            /\ lk' = [lk EXCEPT ![p] = [names |-> names, j |-> 0, i |-> 0, ret |-> ret]]

\* one attempt of lockFile's retry loop on fnames[j]
lockFile(p) ==
    /\ pc[p] \in {"t_lock", "s_lock"}
    /\ LET name == lk[p].names[lk[p].j + 1]
           isTop == pc[p] = "t_lock"
       IN  IF OpenExcl(lckFiles, name)
           THEN /\ lckFiles' = lckFiles \cup {name}
                /\ held' = [held EXCEPT ![p] = @ \cup {name}]
                /\ UNCHANGED <<ok, obs>>
                /\ IF lk[p].j + 1 = Len(lk[p].names)
                   THEN /\ pc' = [pc EXCEPT ![p] = IF isTop THEN "t_read" ELSE "s_read"]
                        /\ lk' = [lk EXCEPT ![p] = NoLk]
                   ELSE /\ pc' = pc
                        /\ lk' = [lk EXCEPT ![p].j = @ + 1, ![p].i = 0]
           ELSE /\ UNCHANGED <<lckFiles, held>>
                /\ IF lk[p].i + 1 < LockTries
                   THEN /\ lk' = [lk EXCEPT ![p].i = @ + 1]
                        /\ UNCHANGED <<pc, ok, obs>>
                   ELSE \* unlockFile(fnames[:j]...); return false
                        /\ Return(p, unlockOnFail(lk[p].names, lk[p].j), FALSE,
                                  IF isTop THEN "t_ret" ELSE "s_ret")
                        /\ obs' = [obs EXCEPT ![p].lockfail = TRUE, ![p].got = lk[p].j]
    /\ UNCHANGED <<hist, variant, sett, net, fs, ct, cycles, dv, tp, sr>>

\* one name of unlockFile: os.Remove(fname + ".lck"); the removal of an
\* existing marker succeeds, that of a missing one fails five times and the
\* loop moves on
unlockFile(p) ==
    /\ pc[p] = "unlock"
    /\ LET name == lk[p].names[lk[p].j + 1]
       IN  /\ lckFiles' = lckFiles \ {name}
           /\ held' = [held EXCEPT ![p] = @ \ {name}]
           /\ IF lk[p].j + 1 = Len(lk[p].names)
              THEN /\ pc' = [pc EXCEPT ![p] = lk[p].ret]
                   /\ lk' = [lk EXCEPT ![p] = NoLk]
              ELSE /\ pc' = pc
                   /\ lk' = [lk EXCEPT ![p].j = @ + 1]
    /\ hist' = IF lk[p].ret = "s_ret" /\ obs[p].read /\ lk[p].j + 1 = Len(lk[p].names)
               THEN [hist EXCEPT ![Dev(p)] =
                       [valid |-> ok[p], short |-> obs[p].rewrote = "short",
                        res |-> fs[Dev(p)].res, todo |-> fs[Dev(p)].todo]]
               ELSE hist
    /\ UNCHANGED <<variant, sett, net, fs, ct, cycles, dv, tp, sr, ok, obs>>

(***************************************************************************)
(* File and network outcomes                                               *)
(***************************************************************************)
\* bytes a Write/WriteAt of len bytes may report: none, some, all
WriteOutcomes(len) == {0, len \div 2, len}

\* the same on the disk of the run: one that never fails writes all
Written(len) == IF net.disk = "sound" THEN {len} ELSE WriteOutcomes(len)

\* a ledger opened without O_APPEND: the write starts at offset 0
WriteOverStart(old, data) == data \o SubSeq(old, Len(data) + 1, Len(old))

\* f.Write(data) on a file opened with O_APPEND: the bytes go to the end
AppendWrite(old, data) == old \o data

\* f.WriteAt(data, 0) on a file holding old: the bytes beyond data stay
WriteAt0(old, data) == data \o SubSeq(old, Len(data) + 1, Len(old))

NoResp == [err |-> TRUE, body |-> <<>>]
Body(b) == [err |-> FALSE, body |-> b]

\* assignment lines and pages the providers may answer with
RecA == <<"A", ",", "1", "2", ",", "7", "0", ",", "7", "1">>
RecB == <<"B", ",", "1", "3", ",", "7", "2", ",", "7", "4">>
\* an assignment whose last field has one digit
RecC == <<"C", ",", "1", "4", ",", "8", ",", "9">>
Junk == <<"<", "p", ">">>

Pages72 ==
    { Junk,
      FactorEq \o RecA \o <<LF>> \o FactorEq \o RecA,
      FactorEq \o RecA \o <<LF>> \o FactorEq \o RecB \o <<LF>> \o FactorEq \o RecA }

PagesPn(v) ==
    IF v = "TF"
    THEN { Junk,
           FactorEq \o RecA,
           FactorEq \o RecB \o <<LF>> \o FactorEq \o RecB,
           FactorEq \o RecB \o <<LF>> \o FactorEq \o RecA,
           FactorEq \o RecC }
    ELSE { Junk,
           TestEq \o RecA,
           TestEq \o RecA \o <<LF>> \o DoubleCheckEq \o RecB }

\* a page with the one assignment B
PageB(v) == (IF v = "TF" THEN FactorEq ELSE DoubleCheckEq) \o RecB

Responses72 == {NoResp} \cup {Body(b) : b \in Pages72}
ResponsesPn(v) == {NoResp} \cup {Body(b) : b \in PagesPn(v)}

(***************************************************************************)
(* topoff                                                                  *)
(***************************************************************************)
\* a cache check that misses the depth equal to the target
cacheFullStrict(curWrk, dev) == Len(curWrk) > dev.Cache

\* if len(curWrk) >= int(dev.Cache) { return true }
cacheFull(curWrk, dev) == Len(curWrk) >= dev.Cache

\* a merge that joins the records without a separator
mergeWorkNoSeparator(curWrk, work) == Join(curWrk \o work, <<>>)

\* a merge that writes the fetched records only
mergeWorkNewOnly(curWrk, work) == Join(work, <<LF>>)

\* work = append(curWrk, work...); workFile := bytes.Join(work, "\n")
mergeWork(curWrk, work) == Join(curWrk \o work, <<LF>>)

\* whether topoff goes on to ask primenet after the GPU72 answer r72
asksPrimenet(v, st, r72) ==
    IF v = "TF"
    THEN (IF st.gpu72 THEN Len(getWorkGPU72(r72).v) = 0 ELSE TRUE) /\ st.primenet
    ELSE TRUE

\* open worktodo.txt, read it, count the assignments
topoffRead(p) ==
    /\ pc[p] = "t_read"
    /\ \E err \in BOOLEAN :
         LET curr == ReplaceCR(fs[Dev(p)].todo)
             curWrk == workRegFindAll(variant, curr)
         IN  IF err
             THEN /\ Return(p, <<Name(p, "todo")>>, FALSE, "t_ret")
                  /\ UNCHANGED <<tp, obs>>
             ELSE /\ obs' = [obs EXCEPT ![p].read = TRUE,
                                        ![p].todo0 = fs[Dev(p)].todo,
                                        ![p].depth0 = Len(curWrk)]
                  /\ IF cacheFull(curWrk, Device(p))
                     THEN /\ Return(p, <<Name(p, "todo")>>, TRUE, "t_ret")
                          /\ tp' = tp
                     ELSE /\ tp' = [tp EXCEPT ![p].curWrk = curWrk]
                          /\ pc' = [pc EXCEPT ![p] = "t_fetch"]
                          /\ UNCHANGED <<ok, lk>>
    /\ UNCHANGED <<hist, variant, sett, net, fs, lckFiles, held, ct, cycles, dv, sr>>

\* the provider requests and the merge
topoffFetch(p) ==
    /\ pc[p] = "t_fetch"
    /\ \E r72 \in (IF variant = "TF" /\ sett.gpu72 THEN net.p72 ELSE {NoResp}) :
       \E rPn \in (IF asksPrimenet(variant, sett, r72) THEN net.pn ELSE {NoResp}) :
         LET work == fetchWork(variant, sett, Device(p).Target, r72, rPn)
             asked72 == variant = "TF" /\ sett.gpu72
             askedPn == asksPrimenet(variant, sett, r72)
             raw72 == IF r72.err THEN <<>> ELSE workRegFindAll(variant, r72.body)
             rawPn == IF rPn.err THEN <<>> ELSE workRegFindAll(variant, rPn.body)
             from72 == asked72 /\ ~askedPn
         IN  /\ obs' = [obs EXCEPT
                   ![p].fetches = @ + (IF asked72 THEN 1 ELSE 0) + (IF askedPn THEN 1 ELSE 0),
                   ![p].src = IF from72 THEN "gpu72" ELSE "pn",
                   ![p].raw = IF from72 THEN raw72 ELSE rawPn,
                   ![p].zero = (asked72 => raw72 = <<>>) /\ (askedPn => rawPn = <<>>),
                   ![p].fetched = work]
             /\ IF work.nil
                THEN /\ Return(p, <<Name(p, "todo")>>, FALSE, "t_ret")
                     /\ tp' = [tp EXCEPT ![p] = NoTp]
                ELSE /\ tp' = [tp EXCEPT ![p].workFile = mergeWork(tp[p].curWrk, work.v)]
                     /\ pc' = [pc EXCEPT ![p] = "t_trunc"]
                     /\ UNCHANGED <<ok, lk>>
    /\ UNCHANGED <<hist, variant, sett, net, fs, lckFiles, held, ct, cycles, dv, sr>>

\* todo.Truncate(0)
topoffTruncate(p) ==
    /\ pc[p] = "t_trunc"
    /\ fs' = [fs EXCEPT ![Dev(p)].todo = <<>>]
    /\ pc' = [pc EXCEPT ![p] = "t_write"]
    /\ obs' = [obs EXCEPT ![p].wrote = "trunc"]
    /\ UNCHANGED <<hist, variant, sett, net, lckFiles, held, ct, cycles, dv, lk, tp, sr, ok>>

\* n, err := todo.WriteAt(workFile, 0); a short or failed write returns false
topoffWrite(p) ==
    /\ pc[p] = "t_write"
    /\ \E n \in Written(Len(tp[p].workFile)) :
         /\ fs' = [fs EXCEPT ![Dev(p)].todo =
                      WriteAt0(@, SubSeq(tp[p].workFile, 1, n))]
         /\ obs' = [obs EXCEPT ![p].wrote =
                      IF n = Len(tp[p].workFile) THEN "full" ELSE "short"]
         /\ Return(p, <<Name(p, "todo")>>, n = Len(tp[p].workFile), "t_ret")
    /\ tp' = [tp EXCEPT ![p] = NoTp]
    /\ UNCHANGED <<hist, variant, sett, net, lckFiles, held, ct, cycles, dv, sr>>

(***************************************************************************)
(* sendResults                                                             *)
(***************************************************************************)
\* TFmanager: keep, send := filterResults(curRes, asgn);
\* LLmanager sends every result line and keeps none
classify(v, curRes, asgn) ==
    IF v = "TF" THEN filterResults(curRes, asgn)
    ELSE [keep |-> <<>>, send |-> curRes]

\* results := bytes.TrimRight(bytes.Join(send, "\n"), " \n")
submitBlob(send) == TrimRight(Join(send, <<LF>>))

\* a loop that never looks at the limit
chunkLocWholeRest(results, i) == Len(From(results, i))

\* a chunk cut at the limit, wherever that falls
chunkLocCutAtLimit(results, i) == Min({Len(From(results, i)), sendlimit})

\* the length loc of the chunk that starts at offset i
chunkLoc(results, i) ==
    IF Len(From(results, i)) > sendlimit
    THEN LastIndexByte(Slice(results, i, i + sendlimit), LF) + 1
    ELSE Len(From(results, i))

\* the acknowledgment token of the submission endpoint
Processing == <<"p", "r", "o", "c", "e", "s", "s", "i", "n", "g", ":">>

\* answers of the submission endpoint: no answer, a page without the token,
\* a page with it
SubmitResponses == {NoResp, Body(Junk), Body(Junk \o Processing)}

\* a sendbatch that reports success whatever happened
sendbatchAlways(resp) == TRUE

\* a sendbatch that takes any answer for an acknowledgment
sendbatchAnyAnswer(resp) == ~resp.err

\* sendbatch given the outcome of the HTTP request
sendbatch(resp) == ~resp.err /\ Contains(resp.body, Processing)

\* a loop that stops one byte earlier
moreChunksStopEarly(results, i) == i < Len(results) - 2

\* the loop condition: i < len(results)-1
moreChunks(results, i) == i < Len(results) - 1

\* a keepRes without the appended newline
keepResNoNewline(keep) == Join(keep, <<LF>>)

\* keepRes := append(bytes.Join(keep, "\n"), '\n')
keepRes(keep) == Join(keep, <<LF>>) \o <<LF>>

\* open the files, read worktodo.txt (TFmanager) and results.txt, classify
sendRead(p) ==
    /\ pc[p] = "s_read"
    /\ \E err \in BOOLEAN :
         LET asgn == IF variant = "TF" THEN ReplaceCR(fs[Dev(p)].todo) ELSE <<>>
             curr == ReplaceCR(fs[Dev(p)].res)
             curRes == resultRegFindAll(variant, curr)
             f == classify(variant, curRes, asgn)
         IN  IF err
             THEN /\ Return(p, SendLockNames(variant, p), FALSE, "s_ret")
                  /\ UNCHANGED <<sr, obs>>
             ELSE /\ obs' = [obs EXCEPT ![p].read = TRUE,
                                        ![p].todo0 = fs[Dev(p)].todo,
                                        ![p].res0 = fs[Dev(p)].res,
                                        ![p].sent0 = fs[Dev(p)].sent]
                  /\ IF Len(curRes) = 0
                     THEN /\ Return(p, SendLockNames(variant, p), TRUE, "s_ret")
                          /\ sr' = sr
                     ELSE /\ sr' = [sr EXCEPT ![p] =
                                     [asgn |-> asgn, keep |-> f.keep, send |-> f.send,
                                      results |-> submitBlob(f.send), i |-> 0, loc |-> 0]]
                          /\ pc' = [pc EXCEPT ![p] = "s_loop"]
                          /\ UNCHANGED <<ok, lk>>
    /\ UNCHANGED <<hist, variant, sett, net, fs, lckFiles, held, ct, cycles, dv, tp>>

\* one pass of the chunk loop up to sendbatch: the chunk is cut and posted
sendChunk(p) ==
    /\ pc[p] = "s_loop"
    /\ moreChunks(sr[p].results, sr[p].i)
    /\ LET loc == chunkLoc(sr[p].results, sr[p].i)
       IN  IF loc <= 0
           THEN /\ Return(p, SendLockNames(variant, p), FALSE, "s_ret")
                /\ obs' = [obs EXCEPT ![p].locerr = TRUE]
                /\ sr' = sr
           ELSE \E resp \in net.sub :
                  /\ obs' = [obs EXCEPT
                        ![p].batch = Some(Slice(sr[p].results, sr[p].i, sr[p].i + loc)),
                        ![p].chunks = Append(@, Slice(sr[p].results, sr[p].i, sr[p].i + loc)),
                        ![p].nack = resp.err \/ ~Contains(resp.body, Processing)]
                  /\ IF sendbatch(resp)
                     THEN /\ sr' = [sr EXCEPT ![p].loc = loc]
                          /\ pc' = [pc EXCEPT ![p] = "s_ledger"]
                          /\ UNCHANGED <<ok, lk>>
                     ELSE /\ Return(p, SendLockNames(variant, p), FALSE, "s_ret")
                          /\ sr' = sr
    /\ UNCHANGED <<hist, variant, sett, net, fs, lckFiles, held, ct, cycles, dv, tp>>

\* n, err := sent.Write(results[i : i+loc]); then i += loc
sendLedger(p) ==
    /\ pc[p] = "s_ledger"
    /\ \E n \in Written(sr[p].loc) :
         /\ fs' = [fs EXCEPT ![Dev(p)].sent =
                      AppendWrite(@, Slice(sr[p].results, sr[p].i, sr[p].i + n))]
         /\ IF n = sr[p].loc
            THEN /\ sr' = [sr EXCEPT ![p].i = @ + sr[p].loc]
                 /\ pc' = [pc EXCEPT ![p] = "s_loop"]
                 /\ UNCHANGED <<ok, lk>>
            ELSE /\ Return(p, SendLockNames(variant, p), FALSE, "s_ret")
                 /\ sr' = sr
    /\ UNCHANGED <<hist, variant, sett, net, lckFiles, held, ct, cycles, dv, tp, obs>>

\* after the loop: sent.Write("\n") (TFmanager only when len(send) > 0; its
\* result is not looked at)
sendTail(p) ==
    /\ pc[p] = "s_loop"
    /\ ~moreChunks(sr[p].results, sr[p].i)
    /\ IF variant = "LL" \/ Len(sr[p].send) > 0
       THEN \E n \in Written(1) :
              fs' = [fs EXCEPT ![Dev(p)].sent = AppendWrite(@, SubSeq(<<LF>>, 1, n))]
       ELSE fs' = fs
    /\ pc' = [pc EXCEPT ![p] = IF variant = "TF" THEN "s_rewrite" ELSE "s_trunc"]
    /\ UNCHANGED <<hist, variant, sett, net, lckFiles, held, ct, cycles, dv, lk, tp, sr, ok, obs>>

\* TFmanager: n, err := res.WriteAt(keepRes, 0); truncate only after a full
\* write, return true either way
sendRewrite(p) ==
    /\ pc[p] = "s_rewrite"
    /\ \E n \in Written(Len(keepRes(sr[p].keep))) :
         /\ fs' = [fs EXCEPT ![Dev(p)].res =
                      WriteAt0(@, SubSeq(keepRes(sr[p].keep), 1, n))]
         /\ IF n = Len(keepRes(sr[p].keep))
            THEN /\ pc' = [pc EXCEPT ![p] = "s_trunc"]
                 /\ obs' = obs
                 /\ UNCHANGED <<ok, lk>>
            ELSE /\ Return(p, SendLockNames(variant, p), TRUE, "s_ret")
                 /\ obs' = [obs EXCEPT ![p].rewrote = "short"]
    /\ UNCHANGED <<hist, variant, sett, net, lckFiles, held, ct, cycles, dv, tp, sr>>

\* TFmanager: res.Truncate(int64(n)); LLmanager: res.Truncate(0)
sendTruncate(p) ==
    /\ pc[p] = "s_trunc"
    /\ LET n == IF variant = "TF" THEN Len(keepRes(sr[p].keep)) ELSE 0
       IN  fs' = [fs EXCEPT ![Dev(p)].res = SubSeq(@, 1, n)]
    /\ Return(p, SendLockNames(variant, p), TRUE, "s_ret")
    /\ obs' = [obs EXCEPT ![p].rewrote = "full"]
    /\ UNCHANGED <<hist, variant, sett, net, lckFiles, held, ct, cycles, dv, tp, sr>>

(***************************************************************************)
(* main: the polling loop                                                  *)
(***************************************************************************)
\* a main that goes on to the device profiles after a successful login only
loginPassesLoggedIn(v, st, loggedin) == loggedin

\* TFmanager: if !login() && !sett.gpu72 { retry }; LLmanager: if !login()
loginPasses(v, st, loggedin) ==
    IF v = "TF" THEN loggedin \/ st.gpu72 ELSE loggedin

\* a cycle starts: login(), whose answer ok keeps until topoff returns
mainLogin(p) ==
    /\ pc[p] = "m_login"
    /\ cycles[p] > 0
    /\ cycles' = [cycles EXCEPT ![p] = @ - 1]
    /\ \E loggedin \in BOOLEAN :
         /\ ok' = [ok EXCEPT ![p] = loggedin]
         /\ IF loginPasses(variant, sett, loggedin)
            THEN /\ pc' = [pc EXCEPT ![p] = "m_dev"]
                 /\ dv' = [dv EXCEPT ![p] = 0]
            ELSE /\ pc' = [pc EXCEPT ![p] = "m_backoff"]
                 /\ dv' = dv
    /\ UNCHANGED <<hist, variant, sett, net, fs, lckFiles, held, ct, lk, tp, sr, obs>>

\* for i := range sett.Devices: call topoff(sett.Devices[i])
mainDevice(p) ==
    /\ pc[p] = "m_dev"
    /\ IF dv[p] < Len(sett.Devices)
       THEN /\ pc' = [pc EXCEPT ![p] = "t_lock"]
            /\ lk' = [lk EXCEPT ![p] =
                        [names |-> <<Name(p, "todo")>>, j |-> 0, i |-> 0, ret |-> "t_ret"]]
       ELSE /\ pc' = [pc EXCEPT ![p] = "m_complete"]
            /\ lk' = lk
    /\ UNCHANGED <<hist, variant, sett, net, fs, lckFiles, held, ct, cycles, dv, tp, sr, ok, obs>>

\* a main that calls sendResults whatever topoff returned
sendAfterAlways(topoffOk) == TRUE

\* topoff(...) && sendResults(...): sendResults is called only when topoff
\* returned true
sendAfter(topoffOk) == topoffOk

\* topoff returned: topoff(...) && sendResults(...)
mainAfterTopoff(p) ==
    /\ pc[p] = "t_ret"
    /\ IF sendAfter(ok[p])
       THEN /\ pc' = [pc EXCEPT ![p] = "s_lock"]
            /\ lk' = [lk EXCEPT ![p] =
                        [names |-> SendLockNames(variant, p), j |-> 0, i |-> 0,
                         ret |-> "s_ret"]]
       ELSE /\ pc' = [pc EXCEPT ![p] = "m_backoff"]
            /\ lk' = lk
    /\ obs' = [obs EXCEPT ![p] = NoObs]
    /\ tp' = [tp EXCEPT ![p] = NoTp]
    /\ UNCHANGED <<hist, variant, sett, net, fs, lckFiles, held, ct, cycles, dv, sr, ok>>

\* sendResults returned
mainAfterSend(p) ==
    /\ pc[p] = "s_ret"
    /\ IF ok[p]
       THEN /\ pc' = [pc EXCEPT ![p] = "m_dev"]
            /\ dv' = [dv EXCEPT ![p] = @ + 1]
       ELSE /\ pc' = [pc EXCEPT ![p] = "m_backoff"]
            /\ dv' = dv
    /\ obs' = [obs EXCEPT ![p] = NoObs]
    /\ sr' = [sr EXCEPT ![p] = NoSr]
    /\ UNCHANGED <<hist, variant, sett, net, fs, lckFiles, held, ct, cycles, lk, tp, ok>>

\* time.Sleep(2 * time.Minute); continue: TFmanager counts the retry and
\* leaves the loop at RetryCap, LLmanager loops for ever
mainBackoff(p) ==
    /\ pc[p] = "m_backoff"
    /\ IF variant = "TF"
       THEN /\ ct' = [ct EXCEPT ![p] = @ + 1]
            /\ pc' = [pc EXCEPT ![p] = IF ct[p] + 1 < RetryCap THEN "m_login" ELSE "m_fatal"]
       ELSE /\ ct' = ct
            /\ pc' = [pc EXCEPT ![p] = "m_login"]
    /\ UNCHANGED <<hist, variant, sett, net, fs, lckFiles, held, cycles, dv, lk, tp, sr, ok, obs>>

\* every device updated: break when Polltime is 0 (TFmanager then runs into
\* the log.Fatal after the loop, LLmanager returns), else sleep and restart
\* with the retry counter zeroed
mainComplete(p) ==
    /\ pc[p] = "m_complete"
    /\ IF sett.Polltime = 0
       THEN /\ pc' = [pc EXCEPT ![p] = IF variant = "TF" THEN "m_fatal" ELSE "m_exit"]
            /\ ct' = ct
       ELSE /\ pc' = [pc EXCEPT ![p] = "m_login"]
            /\ ct' = [ct EXCEPT ![p] = 0]
    /\ UNCHANGED <<hist, variant, sett, net, fs, lckFiles, held, cycles, dv, lk, tp, sr, ok, obs>>

(***************************************************************************)
(* Initial states                                                          *)
(***************************************************************************)
\* provider configurations parseOpts lets through
Providers(v) ==
    IF v = "TF"
    THEN {[gpu72 |-> TRUE, primenet |-> FALSE], [gpu72 |-> FALSE, primenet |-> TRUE],
          [gpu72 |-> TRUE, primenet |-> TRUE]}
    ELSE {[gpu72 |-> FALSE, primenet |-> TRUE]}

\* worktodo.txt contents a run may start from: empty, one assignment with a
\* CR LF line end, a comment line and two assignments
TodoOne(v) == (IF v = "TF" THEN FactorEq ELSE TestEq) \o RecA \o <<CR, LF>>
TodoTwo(v) ==
    <<"#", LF>> \o (IF v = "TF" THEN FactorEq ELSE TestEq) \o RecA \o <<LF>>
        \o (IF v = "TF" THEN FactorEq ELSE DoubleCheckEq) \o RecB
TodoFiles(v) == {<<>>, TodoOne(v), TodoTwo(v)}

\* results.txt contents a run may start from: empty, several result lines,
\* one line longer than sendlimit
ResLines(v) ==
    IF v = "TF"
    THEN <<"M", "1", "2", SP, "a", CR, "M", "1", "3", SP, "b", LF,
           "M", "1", "4", SP, "c", LF>>
    ELSE <<"M", "(", SP, "1", SP, ")", CR, "M", "(", SP, "2", SP, ")", LF>>
ResLong(v) ==
    IF v = "TF"
    THEN <<"M", "1", "5", SP, "a", "b", "c", "d", "e", "f", "g", "h", LF>>
    ELSE <<"M", "(", SP, "1", "5", SP, ")", "a", "b", "c", LF>>
\* a line that fills a chunk, then the shortest last line the blob can have
ResTail(v) ==
    IF v = "TF"
    THEN <<"M", "1", "5", SP, "a", "b", "c", LF, "M", "1", SP, LF>>
    ELSE <<"M", "(", SP, "5", SP, ")", "a", LF, "M", "(", SP, SP, ")", LF>>
\* two lines with one key around a line with another
ResDup(v) ==
    IF v = "TF"
    THEN <<"M", "1", "2", SP, "a", LF, "M", "1", "4", SP, "b", LF,
           "M", "1", "2", SP, "c", LF>>
    ELSE <<"M", "(", SP, "1", SP, ")", LF, "M", "(", SP, "2", SP, ")", "b", LF,
           "M", "(", SP, "1", SP, ")", "c", LF>>
ResFiles(v) == {<<>>, ResLines(v), ResLong(v), ResTail(v), ResDup(v)}

Settings(v) ==
    { [gpu72 |-> pr.gpu72, primenet |-> pr.primenet, Polltime |-> poll,
       Devices |-> <<[Cache |-> cache, Target |-> MinTarget]>>] :
         pr \in Providers(v), poll \in {0, 2}, cache \in {1, 2, 3} }

\* what every run starts with: no marker, every process before its first login
StartOn(st, nt, disks, n) ==
    /\ sett = st
    /\ net = nt
    /\ fs = disks
    /\ lckFiles = {}
    /\ held = [p \in Procs |-> {}]
    /\ pc = [p \in Procs |-> "m_login"]
    /\ ct = [p \in Procs |-> 0]
    /\ cycles = n
    /\ dv = [p \in Procs |-> 0]
    /\ lk = [p \in Procs |-> NoLk]
    /\ tp = [p \in Procs |-> NoTp]
    /\ sr = [p \in Procs |-> NoSr]
    /\ ok = [p \in Procs |-> FALSE]
    /\ hist = [d \in DOMAIN disks |-> NoHist]
    /\ obs = [p \in Procs |-> NoObs]

\* the same with one device profile
Start(st, nt, files, n) == StartOn(st, nt, [d \in {1} |-> files], n)

\* one manager process, every configuration and starting file
Init ==
    /\ variant \in {"TF", "LL"}
    /\ \E st \in Settings(variant), t \in TodoFiles(variant), r \in ResFiles(variant) :
         Start(st, [p72 |-> Responses72, pn |-> ResponsesPn(variant),
                    sub |-> SubmitResponses, disk |-> "any"],
               [todo |-> t, res |-> r, sent |-> <<>>],
               [p \in Procs |-> IF p = 1 THEN MaxCycles ELSE 0])

\* two manager processes on the same device profile; the first is followed
\* for ConcCycles polling cycles, the second for one
InitConc ==
    /\ variant \in {"TF", "LL"}
    /\ \E st \in {x \in Settings(variant) : x.primenet /\ ~x.gpu72 /\ x.Polltime = 2
                                             /\ x.Devices[1].Cache = 3},
          t \in {TodoOne(variant)}, r \in {ResLines(variant)} :
         Start(st, [p72 |-> {NoResp}, pn |-> {Body(Junk), Body(PageB(variant))},
                    sub |-> SubmitResponses, disk |-> "any"],
               [todo |-> t, res |-> r, sent |-> <<>>],
               [p \in Procs |-> IF p = 1 THEN ConcCycles ELSE 1])

\* results.txt with one line, whose key is in no queue
ResOne(v) ==
    IF v = "TF" THEN <<"M", "1", "4", SP, "c", LF>>
    ELSE <<"M", "(", SP, "2", SP, ")", LF>>

\* one manager process with two device profiles, followed for MainCycles
\* polling cycles: the first profile needs a refill and has a result to
\* send, the second has a full queue and no result; primenet answers or
\* not, logins and file reads may fail, writes are complete and the
\* submission endpoint acknowledges
InitMain ==
    /\ variant \in {"TF", "LL"}
    /\ \E poll \in {0, 2} :
         StartOn([gpu72 |-> FALSE, primenet |-> TRUE, Polltime |-> poll,
                  Devices |-> <<[Cache |-> 2, Target |-> MinTarget],
                                [Cache |-> 2, Target |-> MinTarget]>>],
                 [p72 |-> {NoResp}, pn |-> {NoResp, Body(PageB(variant))},
                  sub |-> {Body(Junk \o Processing)}, disk |-> "sound"],
                 <<[todo |-> TodoOne(variant), res |-> ResOne(variant), sent |-> <<>>],
                   [todo |-> TodoTwo(variant), res |-> <<>>, sent |-> <<>>]>>,
                 [p \in Procs |-> IF p = 1 THEN MainCycles ELSE 0])

Next ==
    \E p \in Procs :
        \/ mainLogin(p)
        \/ mainDevice(p)
        \/ mainAfterTopoff(p)
        \/ mainAfterSend(p)
        \/ mainBackoff(p)
        \/ mainComplete(p)
        \/ lockFile(p)
        \/ unlockFile(p)
        \/ topoffRead(p)
        \/ topoffFetch(p)
        \/ topoffTruncate(p)
        \/ topoffWrite(p)
        \/ sendRead(p)
        \/ sendChunk(p)
        \/ sendLedger(p)
        \/ sendTail(p)
        \/ sendRewrite(p)
        \/ sendTruncate(p)

\* the result line the computation process reports while the manager runs
ExtRec(v) ==
    IF v = "TF" THEN <<"M", "1", "6", SP, "x", LF>>
    ELSE <<"M", "(", SP, "6", SP, ")", LF>>

\* that line as it is submitted and written to the ledger
ExtSent(v) == SubSeq(ExtRec(v), 1, Len(ExtRec(v)) - 1)

\* the computation process (mfakto), which knows nothing of the lock
\* markers, appends its result line to results.txt of device d, once as
\* long as the line is in neither results.txt nor the ledger
extAppend(d) ==
    /\ ~Contains(fs[d].res, ExtRec(variant))
    /\ ~Contains(fs[d].sent, ExtSent(variant))
    /\ fs' = [fs EXCEPT ![d].res = AppendWrite(@, ExtRec(variant))]
    /\ UNCHANGED <<hist, variant, sett, net, lckFiles, held, pc, ct, cycles, dv, lk, tp, sr,
                   ok, obs>>

\* one manager process on one device profile, the computation process
\* writing its results next to it: the queue needs a refill, results.txt
\* holds one line, writes are complete and the endpoint may refuse
InitExt ==
    /\ variant \in {"TF", "LL"}
    /\ \E poll \in {0, 2} :
         Start([gpu72 |-> FALSE, primenet |-> TRUE, Polltime |-> poll,
                Devices |-> <<[Cache |-> 2, Target |-> MinTarget]>>],
               [p72 |-> {NoResp}, pn |-> {NoResp, Body(PageB(variant))},
                sub |-> {NoResp, Body(Junk \o Processing)}, disk |-> "sound"],
               [todo |-> TodoOne(variant), res |-> ResOne(variant), sent |-> <<>>],
               [p \in Procs |-> IF p = 1 THEN MaxCycles ELSE 0])

\* the manager's steps and the computation process on the first device
NextExt ==
    \/ Next
    \/ extAppend(1)

Spec == Init /\ [][Next]_vars
SpecExt == InitExt /\ [][NextExt]_vars
SpecConc == InitConc /\ [][Next]_vars
SpecMain == InitMain /\ [][Next]_vars

(***************************************************************************)
(* Vocabulary of the properties                                            *)
(***************************************************************************)
Names == {<<d, k>> : d \in DOMAIN fs, k \in FileKinds}
HoldersOf(name) == {p \in Procs : name \in held[p]}
LockPcs == {"t_lock", "s_lock"}
\* positions of main, outside topoff and sendResults
MainPcs == {"m_login", "m_dev", "m_backoff", "m_complete", "m_fatal", "m_exit",
            "t_ret", "s_ret"}

\* the lines of a text, empty ones left out
RECURSIVE SplitLF(_)
SplitLF(s) ==
    IF Len(s) = 0 THEN <<>>
    ELSE IF s[1] = LF THEN SplitLF(Tail(s))
    ELSE LET e == LineEnd(s, 1)
         IN  <<SubSeq(s, 1, e)>> \o SplitLF(SubSeq(s, e + 1, Len(s)))

Count(seq, x) == Cardinality({k \in 1..Len(seq) : seq[k] = x})
IsPrefix(a, b) == Len(a) <= Len(b) /\ SubSeq(b, 1, Len(a)) = a

\* the Assignment Records of a queue file, and their number
Records(file) == workRegFindAll(variant, ReplaceCR(file))
Depth(file) == Len(Records(file))

\* the identifying key of a result line: the digits after the first "M" that
\* has digits (TFmanager), the digits inside "M( ... )" (LLmanager)
KeyOf(rec) ==
    IF variant = "TF" THEN From(resultExtract(rec), 1)
    ELSE LET k == Min(MParenAt(rec)) IN SubSeq(rec, k + 3, DigitRunEnd(rec, k + 3))

\* every line of the chunk p handed to the endpoint has a key that does
\* not occur in the queue as it was when the call read its files
BatchKeysAbsent(p) ==
    LET lines == SplitLF(obs[p].batch.v)
    IN  \A k \in 1..Len(lines) :
          ~Contains(ReplaceCR(obs[p].todo0), KeyOf(lines[k]))

(***************************************************************************)
(* C1 (as stated): in every sendResults call, of either program, a result  *)
(* line is handed to the submission endpoint only if its key does not      *)
(* occur in the queue contents.  LLmanager never looks at the queue.       *)
(***************************************************************************)
C1_AsStated == \A p \in Procs : ~obs[p].batch.nil => BatchKeysAbsent(p)

(***************************************************************************)
(* C1 (amended): in TFmanager's sendResults every line of every chunk      *)
(* handed to the endpoint has a key that is no substring of the queue      *)
(* contents read in that call; LLmanager's sendResults reads no queue and  *)
(* submits every result line.                                              *)
(***************************************************************************)
C1_SubmitOnlyAbsentKeys ==
    \A p \in Procs :
        /\ (variant = "TF" /\ ~obs[p].batch.nil) => BatchKeysAbsent(p)
        /\ (variant = "LL" /\ pc[p] \in {"s_loop", "s_ledger"}) =>
              /\ sr[p].keep = <<>>
              /\ sr[p].send = resultRegFindAll("LL", ReplaceCR(obs[p].res0))

\* a chunk was submitted while another result line was held back because
\* its key is in the queue
C1_Witness ==
    \E p \in Procs :
        /\ variant = "TF"
        /\ ~obs[p].batch.nil
        /\ Len(sr[p].keep) > 0
        /\ Contains(ReplaceCR(obs[p].todo0), KeyOf(sr[p].keep[1]))

(***************************************************************************)
(* C2: when the endpoint does not acknowledge a chunk, or the rest of the  *)
(* blob is longer than sendlimit with no newline within sendlimit, the     *)
(* call returns false, results.txt is byte-identical to what the call      *)
(* read, and the ledger holds exactly the chunks acknowledged before.      *)
(***************************************************************************)
NoNewlineWithinLimit(r) ==
    /\ moreChunks(r.results, r.i)
    /\ Len(r.results) - r.i > sendlimit
    /\ \A k \in (r.i + 1)..(r.i + sendlimit) : r.results[k] # LF

C2_FailedSubmitKeepsResults ==
    \A p \in Procs :
        (pc[p] = "s_ret" /\ obs[p].read /\ (obs[p].nack \/ NoNewlineWithinLimit(sr[p])))
        => /\ ~ok[p]
           /\ fs[Dev(p)].res = obs[p].res0
           /\ fs[Dev(p)].sent = obs[p].sent0 \o Slice(sr[p].results, 0, sr[p].i)

\* a second chunk was refused after the first had been acknowledged
C2_Witness ==
    \E p \in Procs :
        /\ pc[p] = "s_ret"
        /\ obs[p].nack
        /\ sr[p].i > 0
        /\ Len(fs[Dev(p)].sent) > Len(obs[p].sent0)

(***************************************************************************)
(* C3: no two processes hold the marker of one name; lockFile creates a    *)
(* marker only when nobody holds it, and gives up only on its fifth        *)
(* attempt, made while another process holds the marker.                   *)
(***************************************************************************)
C3_OneHolder == \A name \in Names : Cardinality(HoldersOf(name)) <= 1

C3_LockStep ==
    \A p \in Procs :
        pc[p] \in LockPcs =>
            LET name == lk[p].names[lk[p].j + 1]
            IN  /\ held'[p] # held[p] =>
                      /\ HoldersOf(name) = {}
                      /\ held'[p] = held[p] \cup {name}
                /\ (obs'[p].lockfail /\ ~obs[p].lockfail) =>
                      /\ lk[p].i = LockTries - 1
                      /\ \E q \in Procs \ {p} : name \in held[q]
                      /\ ~ok'[p]

C3_LockExclusive == []C3_OneHolder /\ [][C3_LockStep]_vars

\* one process gave up on worktodo.txt while the other still holds it
C3_Witness ==
    \E p \in Procs, q \in Procs :
        /\ p # q
        /\ obs[p].lockfail
        /\ pc[p] = "t_ret"
        /\ <<1, "todo">> \in held[q]
        /\ held[p] = {}

C5_WriteStep ==
    \A d \in DOMAIN fs : \A k \in FileKinds :
        fs'[d][k] # fs[d][k] =>
            \E p \in Procs :
                /\ pc'[p] # pc[p]
                /\ HoldersOf(<<d, k>>) = {p}
                /\ <<d, k>> \in held'[p]

C5_NoMidRefillRead ==
    \A p \in Procs : \A q \in Procs \ {p} :
        (variant = "TF" /\ pc[p] = "s_read") => pc[q] # "t_write"

C5_FilesUnderLock == []C5_NoMidRefillRead /\ [][C5_WriteStep]_vars

\* one process is between Truncate and WriteAt of worktodo.txt while the
\* other, inside sendResults, waits for the worktodo.txt marker
C5_Witness ==
    \E p \in Procs, q \in Procs :
        /\ p # q
        /\ pc[q] = "t_write"
        /\ fs[1].todo = <<>>
        /\ pc[p] = "s_lock"
        /\ lk[p].j = 2
        /\ lk[p].i > 0

(***************************************************************************)
(* C6: when topoff reads a queue whose depth is at least the target, it    *)
(* makes no provider request, returns true, and worktodo.txt is            *)
(* byte-identical to what it read.                                         *)
(***************************************************************************)
C6_FullCacheNoFetch ==
    \A p \in Procs :
        (pc[p] = "t_ret" /\ obs[p].read /\ Depth(obs[p].todo0) >= Device(p).Cache)
        => /\ ok[p]
           /\ obs[p].fetches = 0
           /\ obs[p].wrote = "no"
           /\ fs[Dev(p)].todo = obs[p].todo0

\* topoff returned from a queue holding exactly the target number of lines
C6_Witness ==
    \E p \in Procs :
        /\ pc[p] = "t_ret"
        /\ obs[p].read
        /\ Depth(obs[p].todo0) = Device(p).Cache
        /\ Len(obs[p].todo0) > 0

(***************************************************************************)
(* C7 (as stated): whichever provider a batch comes from, a line that      *)
(* occurs in it more than once occurs at most once in the queue topoff     *)
(* wrote.  getWork does not deduplicate.                                   *)
(***************************************************************************)
C7_AsStated ==
    \A p \in Procs :
        (pc[p] = "t_ret" /\ obs[p].wrote = "full") =>
            \A k \in 1..Len(obs[p].raw) :
                Count(obs[p].raw, obs[p].raw[k]) > 1 =>
                    Count(Records(fs[Dev(p)].todo), obs[p].raw[k]) <= 1

(***************************************************************************)
(* C7 (amended): for every batch returned by the GPU72 provider, the       *)
(* records topoff appends to the queue are the lines of the batch, each    *)
(* once, in order of first occurrence; a batch from primenet (getWork) is  *)
(* appended as returned, and no fetched line is compared with the lines    *)
(* already in the queue.                                                   *)
(***************************************************************************)
C7_Gpu72BatchDeduplicated ==
    \A p \in Procs :
        (pc[p] = "t_ret" /\ obs[p].wrote = "full") =>
            LET old == Records(obs[p].todo0)
                now == Records(fs[Dev(p)].todo)
                new == SubSeq(now, Len(old) + 1, Len(now))
            IN  /\ IsPrefix(old, now)
                /\ new = obs[p].fetched.v
                /\ obs[p].src = "gpu72" =>
                      /\ \A k \in 1..Len(obs[p].raw) : Count(new, obs[p].raw[k]) = 1
                      /\ \A k \in 1..Len(new) : Count(obs[p].raw, new[k]) >= 1
                /\ obs[p].src = "pn" => Len(new) = Len(obs[p].raw)

\* GPU72 answered with a line twice and topoff wrote the queue
C7_Witness ==
    \E p \in Procs :
        /\ pc[p] = "t_ret"
        /\ obs[p].wrote = "full"
        /\ obs[p].src = "gpu72"
        /\ \E k \in 1..Len(obs[p].raw) : Count(obs[p].raw, obs[p].raw[k]) > 1
        /\ Depth(obs[p].todo0) > 0

(***************************************************************************)
(* C8 (as stated): after a topoff that refilled and returned true, the     *)
(* queue depth is at most the cache target, whatever number of records     *)
(* the fetcher returned.                                                   *)
(***************************************************************************)
C8_AsStated ==
    \A p \in Procs :
        (pc[p] = "t_ret" /\ ok[p] /\ obs[p].wrote = "full") =>
            Depth(fs[Dev(p)].todo) <= Device(p).Cache

(***************************************************************************)
(* C8 (amended): after a topoff that refilled and returned true, the queue *)
(* depth is the depth it read plus the number of records the fetcher       *)
(* returned (after the GPU72 deduplication); it is at most the cache       *)
(* target whenever that number is at most the number requested,            *)
(* target - depth.                                                         *)
(***************************************************************************)
C8_DepthAfterRefill ==
    \A p \in Procs :
        (pc[p] = "t_ret" /\ ok[p] /\ obs[p].wrote = "full") =>
            /\ Depth(fs[Dev(p)].todo) = Depth(obs[p].todo0) + Len(obs[p].fetched.v)
            /\ Len(obs[p].fetched.v) <= Device(p).Cache - Depth(obs[p].todo0)
                  => Depth(fs[Dev(p)].todo) <= Device(p).Cache

\* a refill of a non-empty queue that brought it exactly to the target
C8_Witness ==
    \E p \in Procs :
        /\ pc[p] = "t_ret"
        /\ ok[p]
        /\ obs[p].wrote = "full"
        /\ Depth(obs[p].todo0) > 0
        /\ Len(obs[p].fetched.v) > 0
        /\ Depth(fs[Dev(p)].todo) = Device(p).Cache

(***************************************************************************)
(* C9 (as stated): after any topoff call, whatever its outcome, every      *)
(* record that was in the queue file before is still in it, in the same    *)
(* order and ahead of the new ones.  A short write after the truncate      *)
(* loses records.                                                          *)
(***************************************************************************)
C9_AsStated ==
    \A p \in Procs :
        (pc[p] = "t_ret" /\ obs[p].read) =>
            IsPrefix(Records(obs[p].todo0), Records(fs[Dev(p)].todo))

(***************************************************************************)
(* C9 (amended): after a topoff call that returns true, or that fails      *)
(* before its Truncate, every record that was in the queue file when the   *)
(* call read it is still in it, in the same order and ahead of the records *)
(* added, which are the fetched ones; when the WriteAt after the Truncate  *)
(* fails or is short, the call returns false and the file holds only the   *)
(* bytes written, a proper prefix of the merged queue.                     *)
(***************************************************************************)
C9_RefillKeepsRecords ==
    \A p \in Procs :
        (pc[p] = "t_ret" /\ obs[p].read) =>
            LET old == Records(obs[p].todo0)
                merged == Join(old \o obs[p].fetched.v, <<LF>>)
            IN  /\ obs[p].wrote = "no" => fs[Dev(p)].todo = obs[p].todo0
                /\ obs[p].wrote = "full" =>
                      /\ ok[p]
                      /\ Records(fs[Dev(p)].todo) = old \o obs[p].fetched.v
                /\ obs[p].wrote = "short" =>
                      /\ ~ok[p]
                      /\ IsPrefix(fs[Dev(p)].todo, merged)
                      /\ Len(fs[Dev(p)].todo) < Len(merged)
                /\ ok[p] => IsPrefix(old, Records(fs[Dev(p)].todo))

\* a refill that wrote existing and new records
C9_Witness ==
    \E p \in Procs :
        /\ pc[p] = "t_ret"
        /\ obs[p].wrote = "full"
        /\ Depth(obs[p].todo0) > 0
        /\ Len(obs[p].fetched.v) > 0

(***************************************************************************)
(* C10: when the depth is below the target and every provider asked        *)
(* returned no usable record, topoff returns false and does not rewrite    *)
(* the queue file.  With GPU72 alone, getWorkGPU72 returns an empty slice  *)
(* that is not nil, and topoff rewrites the file and returns true.         *)
(***************************************************************************)
C10_NoRecordsFails ==
    \A p \in Procs :
        (pc[p] = "t_ret" /\ obs[p].read /\ Depth(obs[p].todo0) < Device(p).Cache
            /\ obs[p].fetches > 0 /\ obs[p].zero)
        => /\ ~ok[p]
           /\ obs[p].wrote = "no"
           /\ fs[Dev(p)].todo = obs[p].todo0

\* the numeric last field of an assignment line, as setTargets reads it
LastField(rec) == Atoi(From(rec, LastIndexByte(rec, ",") + 1))

(***************************************************************************)
(* C11: setTargets never lowers the last field of a fetched record: the    *)
(* field after the adjustment is at least the field before, and equals the *)
(* target when the field before was below it, whatever the numbers of      *)
(* digits.  copy() overwrites only as many bytes as the field has, so a    *)
(* one-digit field 9 becomes 7 under the target 73.                        *)
(***************************************************************************)
C11_TargetNeverLowered ==
    \A p \in Procs :
        (variant = "TF" /\ obs[p].src = "pn" /\ ~obs[p].fetched.nil) =>
            \A k \in 1..Len(obs[p].raw) :
                LET before == LastField(obs[p].raw[k])
                    after == LastField(obs[p].fetched.v[k])
                IN  /\ after >= before
                    /\ before < Device(p).Target => after = Device(p).Target

\* p has handed a chunk to the endpoint in this call and sr[p].i is still
\* the offset the chunk starts at: the chunk was acknowledged and is about
\* to be written to the ledger, or it was refused and the call is returning
ChunkPosted(p) ==
    /\ ~obs[p].batch.nil
    /\ \/ pc[p] = "s_ledger"
       \/ obs[p].nack /\ pc[p] \in {"unlock", "s_ret"}

(***************************************************************************)
(* C12: every chunk handed to the submission endpoint is a piece of the    *)
(* blob of at most sendlimit bytes that starts at the start of the blob or *)
(* right after a newline, and ends at the end of the blob or with a        *)
(* newline: no chunk boundary falls inside a result line.                  *)
(***************************************************************************)
C12_ChunksOnBoundaries ==
    \A p \in Procs :
        ChunkPosted(p) =>
            LET chunk == obs[p].batch.v
                i == sr[p].i
                results == sr[p].results
            IN  /\ Len(chunk) >= 1
                /\ Len(chunk) <= sendlimit
                /\ chunk = Slice(results, i, i + Len(chunk))
                /\ i = 0 \/ results[i] = LF
                /\ i + Len(chunk) = Len(results) \/ chunk[Len(chunk)] = LF
                /\ chunk[1] # LF

\* a chunk from the middle of a blob of three chunks was acknowledged
C12_Witness ==
    \E p \in Procs :
        /\ pc[p] = "s_ledger"
        /\ sr[p].i > 0
        /\ sr[p].i + sr[p].loc < Len(sr[p].results)
        /\ Len(sr[p].results) > 2 * sendlimit

\* p's chunk loop ran to its end in this call
LoopDone(p) ==
    /\ obs[p].read
    /\ \/ pc[p] \in {"s_rewrite", "s_trunc"}
       \/ pc[p] = "s_ret" /\ ok[p]
       \/ pc[p] = "unlock" /\ lk[p].ret = "s_ret" /\ ok[p]

(***************************************************************************)
(* C13: when the chunk loop has run to its end, every chunk acknowledged,  *)
(* the chunks handed to the endpoint, concatenated in the order they were  *)
(* sent, are the blob: no byte is dropped, the tail of the blob included,  *)
(* and none is sent twice.                                                 *)
(***************************************************************************)
C13_ChunksReproduceBlob ==
    \A p \in Procs :
        LoopDone(p) =>
            /\ Join(obs[p].chunks, <<>>) = sr[p].results
            /\ sr[p].i = Len(sr[p].results)
            /\ \A k \in 1..Len(obs[p].chunks) : Len(obs[p].chunks[k]) >= 1

\* a blob went out in two chunks, the second being its last two bytes
C13_Witness ==
    \E p \in Procs :
        /\ LoopDone(p)
        /\ Len(obs[p].chunks) = 2
        /\ Len(obs[p].chunks[2]) <= 2
        /\ Len(sr[p].results) > sendlimit

\* p's sendResults is returning, its locals still in place
SendReturning(p) ==
    /\ obs[p].read
    /\ \/ pc[p] = "s_ret"
       \/ pc[p] = "unlock" /\ lk[p].ret = "s_ret"

(***************************************************************************)
(* C14: when the rest of the blob from the current offset is longer than   *)
(* sendlimit and has no newline within sendlimit, the call returns false   *)
(* at once: the chunks handed to the endpoint are those before the offset  *)
(* and no other.  The call returns this way only then, and so never when   *)
(* every line with its newline fits within sendlimit.                      *)
(***************************************************************************)
C14_OversizeRecordFails ==
    \A p \in Procs :
        /\ (SendReturning(p) /\ NoNewlineWithinLimit(sr[p])) =>
              /\ obs[p].locerr
              /\ ~ok[p]
              /\ Join(obs[p].chunks, <<>>) = Slice(sr[p].results, 0, sr[p].i)
        /\ (pc[p] \in {"s_ledger", "s_rewrite", "s_trunc"}) => ~NoNewlineWithinLimit(sr[p])
        /\ obs[p].locerr =>
              /\ NoNewlineWithinLimit(sr[p])
              /\ \E k \in 1..Len(sr[p].send) : Len(sr[p].send[k]) + 1 > sendlimit

\* the call gave up on a line longer than sendlimit
C14_Witness ==
    \E p \in Procs :
        /\ pc[p] = "s_ret"
        /\ obs[p].locerr
        /\ ~ok[p]
        /\ fs[Dev(p)].res = obs[p].res0
        /\ Len(sr[p].results) > sendlimit

(***************************************************************************)
(* C15: the chunks of one sendResults call are handed to the endpoint in   *)
(* the order they have in the blob, each starting where the one before     *)
(* ended; a chunk is handed over only when every chunk before it was       *)
(* acknowledged; and once a chunk is not acknowledged the call is          *)
(* returning false and hands over no further chunk.                        *)
(***************************************************************************)
C15_InOrder ==
    \A p \in Procs :
        /\ IsPrefix(Join(obs[p].chunks, <<>>), sr[p].results)
        /\ obs[p].nack => SendReturning(p) /\ ~ok[p]
        /\ pc[p] = "s_loop" => Join(obs[p].chunks, <<>>) = Slice(sr[p].results, 0, sr[p].i)

C15_SubmitStep ==
    \A p \in Procs :
        (obs'[p].chunks # obs[p].chunks /\ obs'[p].chunks # <<>>) =>
            /\ pc[p] = "s_loop"
            /\ ~obs[p].nack
            /\ Len(obs'[p].chunks) = Len(obs[p].chunks) + 1
            /\ SubSeq(obs'[p].chunks, 1, Len(obs[p].chunks)) = obs[p].chunks
            /\ obs'[p].nack => pc'[p] # "s_ledger"

C15_SubmitInOrder == []C15_InOrder /\ [][C15_SubmitStep]_vars

\* the second of three chunks was refused: the third is never handed over
C15_Witness ==
    \E p \in Procs :
        /\ SendReturning(p)
        /\ obs[p].nack
        /\ Len(obs[p].chunks) = 2
        /\ Len(Join(obs[p].chunks, <<>>)) < Len(sr[p].results)

\* all but the last element
Front(seq) == SubSeq(seq, 1, Len(seq) - 1)

(***************************************************************************)
(* C16: the ledger only grows: in every step its old contents are a prefix *)
(* of its new contents, over any sequence of sendResults calls.  Inside a  *)
(* call, whenever the loop is about to hand over a chunk the ledger holds  *)
(* what it held at the start of the call followed by the exact bytes of    *)
(* every chunk acknowledged so far; a chunk that was not acknowledged      *)
(* leaves the ledger as it was.                                            *)
(***************************************************************************)
C16_LedgerStep ==
    \A d \in DOMAIN fs : IsPrefix(fs[d].sent, fs'[d].sent)

C16_LedgerHolds ==
    \A p \in Procs :
        /\ pc[p] = "s_loop" =>
              fs[Dev(p)].sent = obs[p].sent0 \o Join(obs[p].chunks, <<>>)
        /\ pc[p] = "s_ledger" =>
              fs[Dev(p)].sent = obs[p].sent0 \o Join(Front(obs[p].chunks), <<>>)
        /\ (obs[p].nack /\ Name(p, "sent") \in held[p]) =>
              fs[Dev(p)].sent = obs[p].sent0 \o Join(Front(obs[p].chunks), <<>>)

C16_LedgerAppendOnly == []C16_LedgerHolds /\ [][C16_LedgerStep]_vars

\* a later call added an acknowledged chunk to a ledger that an earlier
\* call had written
C16_Witness ==
    \E p \in Procs :
        /\ pc[p] = "s_loop"
        /\ Len(obs[p].sent0) > 0
        /\ Len(obs[p].chunks) >= 1
        /\ fs[Dev(p)].sent = obs[p].sent0 \o Join(obs[p].chunks, <<>>)

\* TFmanager's sendResults has classified the result lines in this call
Classified(p) == variant = "TF" /\ obs[p].read /\ sr[p] # NoSr

(***************************************************************************)
(* C17: filterResults partitions the result lines: the retained ones are   *)
(* the lines whose key occurs in the queue contents, the submitted ones    *)
(* the others, each in the order of the file, so every line is in exactly  *)
(* one of the two and lines with one key are classified alike; after a     *)
(* call that sent everything and completed its rewrite, results.txt holds  *)
(* exactly the retained lines, one per line.                               *)
(***************************************************************************)
C17_ClassificationPartitions ==
    \A p \in Procs :
        Classified(p) =>
            LET curRes == resultRegFindAll("TF", ReplaceCR(obs[p].res0))
                todo == ReplaceCR(obs[p].todo0)
                InQueue(r) == Contains(todo, KeyOf(r))
                NotInQueue(r) == ~Contains(todo, KeyOf(r))
            IN  /\ sr[p].keep = SelectSeq(curRes, InQueue)
                /\ sr[p].send = SelectSeq(curRes, NotInQueue)
                /\ Len(sr[p].keep) + Len(sr[p].send) = Len(curRes)
                /\ (obs[p].rewrote = "full" /\ Name(p, "res") \in held[p]) =>
                      /\ fs[Dev(p)].res = Join(sr[p].keep, <<LF>>) \o <<LF>>
                      /\ resultRegFindAll("TF", fs[Dev(p)].res) = sr[p].keep

\* of two lines with the key 12, which is in the queue, and one with the
\* key 14 between them, the first two were retained and the rewrite is done
C17_Witness ==
    \E p \in Procs :
        /\ Classified(p)
        /\ obs[p].rewrote = "full"
        /\ Name(p, "res") \in held[p]
        /\ Len(sr[p].keep) = 2
        /\ Len(sr[p].send) = 1
        /\ KeyOf(sr[p].keep[1]) = KeyOf(sr[p].keep[2])

\* p is inside a sendResults call that read the files exactly as the last
\* call on the device, which returned true, had left them
SecondCall(p) ==
    /\ obs[p].read
    /\ Name(p, "res") \in held[p]
    /\ pc[p] \notin {"t_read", "t_fetch", "t_trunc", "t_write"}
    /\ lk[p].ret # "t_ret"
    /\ hist[Dev(p)].valid
    /\ obs[p].res0 = hist[Dev(p)].res
    /\ obs[p].todo0 = hist[Dev(p)].todo

(***************************************************************************)
(* C18: a sendResults call that follows a call which returned true, with   *)
(* results.txt and worktodo.txt unchanged in between, is a no-op: it hands *)
(* no chunk to the endpoint, leaves the ledger and results.txt as they     *)
(* are, and returns true.  When the first call's rewrite of results.txt    *)
(* is short it still returns true, and the second call submits the lines   *)
(* again.                                                                  *)
(***************************************************************************)
C18_SecondCallNoOp ==
    \A p \in Procs :
        SecondCall(p) =>
            /\ obs[p].chunks = <<>>
            /\ fs[Dev(p)].sent = obs[p].sent0
            /\ fs[Dev(p)].res = obs[p].res0
            /\ pc[p] = "unlock" => ok[p]

\* p's sendResults found result lines, none with a key in the queue, had
\* every chunk acknowledged and is returning true, the markers still held
AllSent(p) ==
    /\ obs[p].read
    /\ pc[p] = "unlock"
    /\ lk[p].ret = "s_ret"
    /\ Name(p, "res") \in held[p]
    /\ ok[p]
    /\ sr[p].keep = <<>>
    /\ sr[p].send # <<>>

\* the ledger holds what it held, then the chunks in order, then the
\* newline of the closing Write if that went through
LedgerHasChunks(p) ==
    /\ Join(obs[p].chunks, <<>>) = sr[p].results
    /\ fs[Dev(p)].sent \in
          { obs[p].sent0 \o sr[p].results, obs[p].sent0 \o sr[p].results \o <<LF>> }

(***************************************************************************)
(* C19 (as stated): when no result line has its key in the queue and every *)
(* chunk is acknowledged, results.txt has zero bytes after the call and    *)
(* the ledger holds every chunk in order.  TFmanager writes a newline.     *)
(***************************************************************************)
C19_AsStated ==
    \A p \in Procs :
        AllSent(p) => fs[Dev(p)].res = <<>> /\ LedgerHasChunks(p)

(***************************************************************************)
(* C19 (amended): when no result line has its key in the queue and every   *)
(* chunk is acknowledged, the ledger holds every chunk in order, and after *)
(* a completed rewrite results.txt holds no result line: one newline byte  *)
(* in TFmanager, zero bytes in LLmanager.  When TFmanager's write of that  *)
(* newline fails, results.txt stays as it was read and the call returns    *)
(* true all the same.                                                      *)
(***************************************************************************)
C19_AllSentLeavesNoRecord ==
    \A p \in Procs :
        AllSent(p) =>
            /\ LedgerHasChunks(p)
            /\ obs[p].rewrote \in {"full", "short"}
            /\ obs[p].rewrote = "full" =>
                  /\ fs[Dev(p)].res = IF variant = "TF" THEN <<LF>> ELSE <<>>
                  /\ resultRegFindAll(variant, fs[Dev(p)].res) = <<>>
            /\ obs[p].rewrote = "short" =>
                  /\ variant = "TF"
                  /\ fs[Dev(p)].res = obs[p].res0

\* TFmanager sent two chunks and left results.txt holding one newline
C19_Witness ==
    \E p \in Procs :
        /\ AllSent(p)
        /\ variant = "TF"
        /\ Len(obs[p].chunks) = 2
        /\ obs[p].rewrote = "full"
        /\ fs[Dev(p)].res = <<LF>>

\* the profiles of a cycle are taken in configured order: top-off of a
\* profile begins only from the loop over the profiles, for the profile the
\* loop index names; the index moves up by one, after a reconcile that
\* returned true, or back to 0 when a login passes
InOrder(p) ==
    /\ (pc'[p] = "t_lock" /\ pc[p] # "t_lock") =>
          /\ pc[p] = "m_dev"
          /\ dv'[p] = dv[p]
          /\ dv[p] < Len(sett.Devices)
          /\ lk'[p].names = << <<dv[p] + 1, "todo">> >>
    /\ dv'[p] # dv[p] =>
          \/ pc[p] = "s_ret" /\ ok[p] /\ dv'[p] = dv[p] + 1
          \/ pc[p] = "m_login" /\ dv'[p] = 0

\* reconcile of a profile begins only when top-off of that profile has
\* just returned true
ReconcileAfterTopoff(p) ==
    (pc'[p] = "s_lock" /\ pc[p] # "s_lock") =>
        /\ pc[p] = "t_ret"
        /\ ok[p]
        /\ dv'[p] = dv[p]
        /\ \A n \in 1..Len(lk'[p].names) : lk'[p].names[n][1] = dv[p] + 1

\* a top-off or reconcile that returned false leads to the back-off wait,
\* no further profile begun
FailureAbandons(p) ==
    (pc[p] \in {"t_ret", "s_ret"} /\ ~ok[p] /\ pc'[p] # pc[p]) =>
        pc'[p] = "m_backoff" /\ dv'[p] = dv[p]

\* a cycle begins with the login: when it passes the loop begins with
\* profile 0, when it fails the back-off wait follows
CycleFromLogin(p) ==
    (pc[p] = "m_login" /\ pc'[p] # pc[p]) =>
        \/ pc'[p] = "m_dev" /\ dv'[p] = 0
        \/ pc'[p] = "m_backoff"

\* the back-off wait is followed by the login of a new cycle
BackoffRestarts(p) ==
    (pc[p] = "m_backoff" /\ pc'[p] # pc[p]) => pc'[p] = "m_login"

\* the back-off wait is followed by the login of a new cycle, or in
\* TFmanager, when it was the wait of the RetryCap-th failure in a row, by
\* the fatal exit
BackoffRestartsOrFatal(p) ==
    (pc[p] = "m_backoff" /\ pc'[p] # pc[p]) =>
        \/ pc'[p] = "m_login" /\ (variant = "TF" => ct'[p] < RetryCap)
        \/ /\ pc'[p] = "m_fatal"
           /\ variant = "TF"
           /\ ct[p] = RetryCap - 1
           /\ ct'[p] = RetryCap

(***************************************************************************)
(* C20 (as stated): in a polling cycle the device profiles are updated in  *)
(* configured order, reconcile of a profile runs only after top-off of     *)
(* that profile succeeded, and when top-off or reconcile of profile i      *)
(* fails no later profile is updated in that cycle, the back-off wait      *)
(* occurs and the next cycle starts again at the login and re-attempts     *)
(* profile 0.  In TFmanager the wait of the tenth failure in a row is      *)
(* followed by the fatal exit, not by a next cycle.                        *)
(***************************************************************************)
C20_AsStated ==
    [][\A p \in Procs :
          /\ InOrder(p)
          /\ ReconcileAfterTopoff(p)
          /\ FailureAbandons(p)
          /\ BackoffRestarts(p)
          /\ CycleFromLogin(p)]_vars

(***************************************************************************)
(* C20 (amended): in a polling cycle the device profiles are updated in    *)
(* configured order, reconcile of a profile runs only after top-off of     *)
(* that profile succeeded, and when top-off or reconcile of profile i      *)
(* fails no later profile is updated in that cycle and the back-off wait   *)
(* occurs; after the wait the next cycle starts again at the login and,    *)
(* once the login passes, begins with profile 0, except that TFmanager     *)
(* ends with the fatal exit after the wait of the tenth failure in a row.  *)
(***************************************************************************)
C20_FailureRestartsCycle ==
    [][\A p \in Procs :
          /\ InOrder(p)
          /\ ReconcileAfterTopoff(p)
          /\ FailureAbandons(p)
          /\ BackoffRestartsOrFatal(p)
          /\ CycleFromLogin(p)]_vars

\* the second profile failed in a cycle that followed a failed one, the
\* first profile updated again before it
C20_Witness ==
    \E p \in Procs :
        /\ pc[p] = "m_backoff"
        /\ dv[p] = 1
        /\ ~ok[p]
        /\ variant = "TF"
        /\ ct[p] >= 1

(***************************************************************************)
(* C21: when every device profile of a cycle was updated and the polling   *)
(* interval is zero, the process terminates normally, not through the      *)
(* fatal exit; when the interval is not zero the interval sleep and the    *)
(* login of a new cycle follow, never termination.  TFmanager's break      *)
(* leaves the loop in front of its log.Fatal.                              *)
(***************************************************************************)
C21_SingleShotExitsNormally ==
    [][\A p \in Procs :
          /\ (pc[p] = "m_complete" /\ pc'[p] # pc[p]) =>
                IF sett.Polltime = 0
                THEN pc'[p] = "m_exit"
                ELSE pc'[p] = "m_login"
          /\ (pc'[p] = "m_exit" /\ pc[p] # "m_exit") =>
                pc[p] = "m_complete" /\ sett.Polltime = 0]_vars

\* the retry counter of TFmanager counts the failed cycles in a row: the
\* back-off wait, entered only from a failed login, top-off or reconcile,
\* adds one, a complete cycle followed by the interval sleep zeroes it, and
\* nothing else changes it
CountsFailuresInARow(p) ==
    /\ (pc'[p] = "m_backoff" /\ pc[p] # "m_backoff") =>
          \/ pc[p] = "m_login"
          \/ pc[p] \in {"t_ret", "s_ret"} /\ ~ok[p]
    /\ ct'[p] # ct[p] =>
          \/ pc[p] = "m_backoff" /\ ct'[p] = ct[p] + 1
          \/ pc[p] = "m_complete" /\ pc'[p] = "m_login" /\ ct'[p] = 0
    /\ (variant = "TF" /\ pc[p] = "m_backoff" /\ pc'[p] # pc[p]) => ct'[p] = ct[p] + 1
    /\ (pc[p] = "m_complete" /\ pc'[p] = "m_login") => ct'[p] = 0

\* the fatal exit is taken exactly at the back-off wait that brings the
\* count to RetryCap, in TFmanager
FatalAtCap(p) ==
    /\ (pc'[p] = "m_fatal" /\ pc[p] # "m_fatal") =>
          /\ variant = "TF"
          /\ pc[p] = "m_backoff"
          /\ ct'[p] = RetryCap
    /\ (variant = "TF" /\ pc[p] = "m_backoff" /\ pc'[p] # pc[p] /\ ct'[p] = RetryCap) =>
          pc'[p] = "m_fatal"

(***************************************************************************)
(* C22: TFmanager terminates with the fatal error exactly when 10 cycles   *)
(* in a row have failed, by a failed login or a failed device update,      *)
(* with no complete cycle in between: every complete cycle zeroes the      *)
(* count.  In LLmanager no number of failures in a row terminates the      *)
(* process.  TFmanager also takes the fatal exit after a complete cycle    *)
(* when the polling interval is zero, with no failure counted.             *)
(***************************************************************************)
C22_FatalExactlyAtRetryCap ==
    [][\A p \in Procs :
          /\ CountsFailuresInARow(p)
          /\ FatalAtCap(p)
          /\ variant = "LL" => pc'[p] # "m_fatal" /\ ct'[p] = 0]_vars

\* the loop over the device profiles is entered from the login only, and
\* continued after a reconcile only
DevicesAfterLogin(p) ==
    (pc'[p] = "m_dev" /\ pc[p] # "m_dev") => pc[p] \in {"m_login", "s_ret"}

ShortWriteStep(p) ==
    \/ /\ pc[p] = "t_write"
       /\ obs'[p].wrote = "short"
    \/ /\ pc[p] = "s_ledger"
       /\ pc'[p] # pc[p]
       /\ Len(fs'[Dev(p)].sent) < Len(fs[Dev(p)].sent) + sr[p].loc
    \/ /\ pc[p] = "s_loop"
       /\ pc'[p] # pc[p]
       /\ ~moreChunks(sr[p].results, sr[p].i)
       /\ variant = "LL" \/ Len(sr[p].send) > 0
       /\ fs'[Dev(p)].sent = fs[Dev(p)].sent
    \/ /\ pc[p] = "s_rewrite"
       /\ obs'[p].rewrote = "short"

(***************************************************************************)
(* C24: a write that reports fewer bytes than it was given fails the call  *)
(* that made it: topoff returns false on a short write of the queue, and   *)
(* sendResults returns false on a short write to the ledger and on a short *)
(* write of the retained lines to results.txt.  TFmanager logs the short   *)
(* write of the retained lines and returns true, and neither program looks *)
(* at the result of the closing newline written to the ledger.             *)
(***************************************************************************)
C24_ShortWriteFailsCall ==
    [][\A p \in Procs :
          ShortWriteStep(p) => pc'[p] = "unlock" /\ ~ok'[p]]_vars

\* the line of the computation process is in results.txt of device d
ExtInResults(d) == Contains(fs[d].res, ExtRec(variant))

(***************************************************************************)
(* C25: with the computation process appending result lines to            *)
(* results.txt at any moment, without the lock marker, no appended line    *)
(* leaves results.txt before the endpoint acknowledged it: a step that     *)
(* removes the line finds it in the ledger, where acknowledged chunks are  *)
(* written.  A line appended between the read of results.txt and the       *)
(* rewrite or truncate of sendResults is cut off with the rest.            *)
(***************************************************************************)
C25_AppendedRecordKept ==
    [][\A d \in DOMAIN fs :
          (ExtInResults(d) /\ ~ExtInResults(d)') =>
              Contains(fs'[d].sent, ExtSent(variant))]_vars

====
